---- MODULE Spec2Model ----
(***************************************************************************)
(* Data-freshness-aware fetch-and-cache pipeline of the crypto trading     *)
(* agents repository: BaseData (cache check / save), the per-source        *)
(* fetchers, DataManager.fetch_and_store_all and                           *)
(* DataManager.merge_data_for_training.                                    *)
(*                                                                         *)
(* Time is counted in whole quanta of two hours.  A candle of the default  *)
(* 4h interval spans Interval quanta, its close_time is the last quantum   *)
(* before the next candle opens (open_time + Interval - 1), and the "+ 1"  *)
(* the paginator adds to a close_time leads to the next quantum.           *)
(* Timestamps are UTC; the clock `now` is read as datetime.now() reads it  *)
(* on a host whose local time is UTC.                                      *)
(***************************************************************************)
EXTENDS Integers, Sequences, FiniteSets, TLC

(***************************************************************************)
(* Program constants                                                       *)
(***************************************************************************)
\* timedelta(hours=4) of the freshness test, in quanta
FreshnessWindow == 2
\* the "4h" bucket, in quanta: default interval of every fetcher, freq='4H'
\* of the grids
Interval == 2
\* limit=1 of the listing-date probe
ProbeLimit == 1
\* length of the day of the daily upstream series, in quanta
Day == 12

(***************************************************************************)
(* Bounds of the model                                                     *)
(***************************************************************************)
\* page size of the paginated candle fetch (limit=1000 in the source, scaled)
PageLimit == 2
\* the clock stops advancing here
MaxTime == 6
\* number of top-level calls a behaviour makes
MaxCalls == 2
\* number of interrupted writes a behaviour suffers
MaxCrashes == 1
\* open_time of the first candle the exchange holds for the symbol
ListingTime == 2
\* number of merges a caller makes in a row
MaxMerges == 2

DataTypes ==
    {"ohlcv", "orderbook", "technical", "sentiment", "fear_greed",
     "fundamentals", "macro", "onchain"}

\* the fetchers a DataManager owns, in the order fetch_and_store_all calls them
ManagerOrder ==
    <<"ohlcv", "orderbook", "technical", "sentiment", "fear_greed", "fundamentals">>

Auxiliary == DataTypes \ {"ohlcv"}

\* fetchers whose fetch_and_store takes the OHLCV table
TakesOhlcv == {"orderbook", "technical"}

\* fetchers whose fetch_and_store takes (start_date, end_date)
TakesRange == {"sentiment", "fear_greed", "fundamentals", "macro", "onchain"}

(***************************************************************************)
(* Tables.  A DataFrame is its rows and the representation of its          *)
(* timestamp column: "datetime" when built by a fetch, "string" when read  *)
(* back from a CSV file (read_csv does not parse dates).                   *)
(***************************************************************************)
EmptyDF == [rows |-> <<>>, ts |-> "none"]

DF(rows, ts) == IF rows = <<>> THEN EmptyDF ELSE [rows |-> rows, ts |-> ts]

IsEmpty(df) == df.rows = <<>>

AbsentFile == [kind |-> "absent", rows |-> <<>>]

CsvFile(rows) == [kind |-> "csv", rows |-> rows]

\* 'open_time' if data_type == 'ohlcv' else 'timestamp'
TsColumn(data_type) == IF data_type = "ohlcv" THEN "open_time" ELSE "timestamp"

RECURSIVE ColumnMax(_, _)
ColumnMax(rows, col) ==
    IF Len(rows) = 1 THEN rows[1][col]
    ELSE LET m == ColumnMax(Tail(rows), col)
         IN  IF rows[1][col] > m THEN rows[1][col] ELSE m

RECURSIVE ColumnMin(_, _)
ColumnMin(rows, col) ==
    IF Len(rows) = 1 THEN rows[1][col]
    ELSE LET m == ColumnMin(Tail(rows), col)
         IN  IF rows[1][col] < m THEN rows[1][col] ELSE m

(***************************************************************************)
(* BaseData._check_local_data: the outcome of the cache check of one file  *)
(* at clock reading t.  status "raised" is an exception leaving the        *)
(* method (read_csv on a zero-byte file, a missing timestamp column, a     *)
(* timestamp pd.to_datetime cannot parse).                                 *)
(***************************************************************************)
CheckRaised == [status |-> "raised", fresh |-> FALSE, df |-> EmptyDF]

CheckResult(fresh, df) == [status |-> "ok", fresh |-> fresh, df |-> df]

\* faulty variant: a table exactly one window old still counts as fresh
IsFreshInclusive(t, latest_timestamp) == t - latest_timestamp <= FreshnessWindow

\* datetime.now() - latest_timestamp < timedelta(hours=4)
IsFresh(t, latest_timestamp) == t - latest_timestamp < FreshnessWindow

\* faulty variant: the outdated branch drops the table it read
StaleResultEmpty(df) == CheckResult(FALSE, EmptyDF)

\* the outdated branch: return False, df
StaleResult(df) == CheckResult(FALSE, df)

_check_local_data(file, data_type, t) ==
    IF file.kind = "absent" THEN CheckResult(FALSE, EmptyDF)
    ELSE IF file.kind = "zero_bytes" THEN CheckRaised
    ELSE IF file.rows = <<>> THEN CheckResult(FALSE, EmptyDF)
    ELSE IF TsColumn(data_type) \notin DOMAIN file.rows[1] THEN CheckRaised
    ELSE IF file.kind = "csv_bad_ts" THEN CheckRaised
    ELSE IF IsFresh(t, ColumnMax(file.rows, TsColumn(data_type)))
         THEN CheckResult(TRUE, DF(file.rows, "string"))
         ELSE StaleResult(DF(file.rows, "string"))

(***************************************************************************)
(* BaseData._save_data: the cache files after saving df under data_type.   *)
(***************************************************************************)
\* faulty variant: to_csv in append mode
save_data_append(fs, df, data_type) ==
    IF ~IsEmpty(df)
    THEN [fs EXCEPT ![data_type] = CsvFile(fs[data_type].rows \o df.rows)]
    ELSE fs

\* faulty variant: the file name lacks the data type, every fetcher writes
\* the file of the first one
save_data_shared(fs, df, data_type) ==
    IF ~IsEmpty(df)
    THEN [fs EXCEPT !["ohlcv"] = CsvFile(df.rows)]
    ELSE fs

\* faulty variant: an empty table is written too
save_data_always(fs, df, data_type) == [fs EXCEPT ![data_type] = CsvFile(df.rows)]

_save_data(fs, df, data_type) ==
    IF ~IsEmpty(df)
    THEN [fs EXCEPT ![data_type] = CsvFile(df.rows)]
    ELSE fs

(***************************************************************************)
(* The upstream exchange (external collaborator).  It holds one candle per *)
(* interval from ListingTime on, the candle being formed included.  The    *)
(* klines endpoint returns candles in increasing open_time: without a      *)
(* startTime parameter the most recent `limit` ones, with one the first    *)
(* `limit` ones whose open_time is at or after it.                         *)
(***************************************************************************)
Candle(o) == [open_time |-> o, close_time |-> o + Interval - 1]

\* number of candles the exchange holds at time t
CandleCount(t) == IF t < ListingTime THEN 0 ELSE (t - ListingTime) \div Interval + 1

\* all candles the exchange holds at time t, oldest first
Candles(t) == [k \in 1..CandleCount(t) |-> Candle(ListingTime + (k - 1) * Interval)]

Take(s, n) == SubSeq(s, 1, IF Len(s) < n THEN Len(s) ELSE n)

LastN(s, n) == SubSeq(s, IF Len(s) < n THEN 1 ELSE Len(s) - n + 1, Len(s))

BinanceKlines(request, t) ==
    IF request.hasStartTime
    THEN Take(SelectSeq(Candles(t), LAMBDA c : c.open_time >= request.startTime),
              request.limit)
    ELSE LastN(Candles(t), request.limit)

(***************************************************************************)
(* Requests.  One record per external request issued: what was sent and,   *)
(* once logged, how the upstream answered ("ok", "error" for a transport   *)
(* or HTTP failure, "malformed" for a payload without the expected fields, *)
(* "unlisted" for an exchangeInfo answer that lacks the symbol, "empty"    *)
(* for a klines answer that is an empty list).                             *)
(***************************************************************************)
Request(endpoint) ==
    [endpoint |-> endpoint, limit |-> 0, hasStartTime |-> FALSE, startTime |-> 0,
     response |-> "pending"]

Answered(request, outcome) == [request EXCEPT !.response = outcome]

\* OHLCVData.fetch_historical_ohlcv: the request it sends.  startTime is a
\* parameter of the request only if start_time is truthy.
KlinesRequest(limit, start_time) ==
    [endpoint |-> "klines", limit |-> limit,
     hasStartTime |-> (start_time # 0),
     startTime |-> start_time,
     response |-> "pending"]

\* OHLCVData.fetch_historical_ohlcv: the rows of the table it returns on a
\* successful response
fetch_historical_ohlcv(limit, start_time, t) ==
    BinanceKlines(KlinesRequest(limit, start_time), t)

RECURSIVE ConcatNewestFirst(_)
\* faulty variant: the pages are concatenated newest first
ConcatNewestFirst(pages) ==
    IF pages = <<>> THEN <<>> ELSE ConcatNewestFirst(Tail(pages)) \o Head(pages)

RECURSIVE Concat(_)
\* pd.concat(all_ohlcv, ignore_index=True)
Concat(pages) ==
    IF pages = <<>> THEN <<>> ELSE Head(pages) \o Concat(Tail(pages))

(***************************************************************************)
(* The auxiliary sources: what each fetch builds from a good response.     *)
(***************************************************************************)
\* pd.date_range(start=start_date, end=end_date, freq='4H')
DateRange(start_date, end_date) ==
    IF end_date < start_date THEN <<>>
    ELSE [k \in 1..((end_date - start_date) \div Interval + 1) |->
              start_date + (k - 1) * Interval]

\* the daily series an upstream holds at time t: one point per day boundary
\* and the current point
UpstreamDaily(t) ==
    [k \in 1..(t \div Day + 1) |-> (k - 1) * Day] \o
    (IF t % Day = 0 THEN <<>> ELSE <<t>>)

\* the 4-hour bin a timestamp falls in
Bin(t) == (t \div Interval) * Interval

\* df.set_index('timestamp').resample('4H').ffill(): one row per bin from the
\* first point's bin to the last one's, each holding the latest point at or
\* before its bin
Resample(points, col) ==
    IF points = <<>> THEN <<>>
    ELSE LET first == Bin(points[1])
             n == (Bin(points[Len(points)]) - first) \div Interval + 1
             src(g) == CHOOSE p \in {points[i] : i \in 1..Len(points)} :
                           /\ Bin(p) <= g
                           /\ \A q \in {points[i] : i \in 1..Len(points)} :
                                  Bin(q) <= g => q <= p
         IN  [k \in 1..n |->
                 [c \in {"timestamp", col} |->
                     IF c = "timestamp" THEN first + (k - 1) * Interval
                     ELSE src(first + (k - 1) * Interval)]]

\* df[(df['timestamp'] >= start_date) & (df['timestamp'] <= end_date)]
Clip(rows, start_date, end_date) ==
    SelectSeq(rows, LAMBDA r : r.timestamp >= start_date /\ r.timestamp <= end_date)

ClipPoints(points, start_date, end_date) ==
    SelectSeq(points, LAMBDA q : q >= start_date /\ q <= end_date)

\* timeperiod=50 and timeperiod=200 of the two moving averages
Sma50Period == 50
Sma200Period == 200

\* faulty variant: the mean of the closes there are, however few
SMARolling(closes, timeperiod) == IF closes >= 1 THEN "value" ELSE "NaN"

\* talib.SMA(df['close'], timeperiod) at a row with that many closes up to
\* and including it: a value once the window is full, NaN before
SMA(closes, timeperiod) == IF closes >= timeperiod THEN "value" ELSE "NaN"

\* TechnicalData.compute_technical_indicators: one row per OHLCV row
compute_technical_indicators(ohlcv_data) ==
    DF([i \in 1..Len(ohlcv_data.rows) |->
            [timestamp |-> ohlcv_data.rows[i].open_time, row |-> i,
             sma50 |-> SMA(i, Sma50Period), sma200 |-> SMA(i, Sma200Period)]],
       ohlcv_data.ts)

\* SentimentData.fetch_social_sentiment: a constant score per bucket
fetch_social_sentiment(start_date, end_date) ==
    LET dates == DateRange(start_date, end_date)
    IN  DF([i \in 1..Len(dates) |->
               [timestamp |-> dates[i], social_sentiment |-> 0]], "datetime")

\* faulty variant: one row only, for the last bucket of the range
FearGreedLatestOnly(start_date, end_date, index) ==
    LET dates == DateRange(start_date, end_date)
    IN  DF(IF dates = <<>> THEN <<>>
           ELSE <<[timestamp |-> dates[Len(dates)], fear_greed_index |-> index]>>,
           "datetime")

\* FearGreedData.fetch_fear_and_greed_index on a good response holding index
fetch_fear_and_greed_index(start_date, end_date, index) ==
    LET dates == DateRange(start_date, end_date)
    IN  DF([i \in 1..Len(dates) |->
               [timestamp |-> dates[i], fear_greed_index |-> index]], "datetime")

\* FundamentalData.fetch_fundamental_data on a good response: resample, clip
fetch_fundamental_data(start_date, end_date, points) ==
    DF(Clip(Resample(points, "market_cap"), start_date, end_date), "datetime")

\* MacroData.fetch_macro_data on a good response: resample, clip
fetch_macro_data(start_date, end_date, points) ==
    DF(Clip(Resample(points, "sp500_returns"), start_date, end_date), "datetime")

\* OnChainData.fetch_onchain_data on a good response: clip, resample
fetch_onchain_data(start_date, end_date, points) ==
    DF(Resample(ClipPoints(points, start_date, end_date), "tx_volume"), "datetime")

\* the value of the index the fear/greed endpoint reports
FearGreedIndex == 50

\* the endpoint a source requests from, "none" for a source computed locally
Endpoint(data_type) ==
    CASE data_type = "fear_greed" -> "fear_greed_ticker"
      [] data_type = "fundamentals" -> "market_chart"
      [] data_type = "macro" -> "price_history"
      [] data_type = "onchain" -> "asset_metrics"
      [] OTHER -> "none"

(***************************************************************************)
(* DataManager.merge_data_for_training.  A combined row is its open_time   *)
(* and one cell per value column: <<v>> for a value, <<>> for the missing  *)
(* value (NaN) merge_asof leaves where no row was joined.                  *)
(***************************************************************************)
\* tolerance=pd.Timedelta(hours=4), in quanta
Tolerance == 2

\* data_types of merge_data_for_training, in the order of its loop
MergeOrder ==
    <<"ohlcv", "orderbook", "technical", "sentiment", "fear_greed", "fundamentals">>

\* the columns of the table of data_type besides its timestamp column
ValueColumns(data_type) ==
    CASE data_type = "ohlcv" -> {"close_time"}
      [] data_type = "orderbook" -> {"bid_ask_spread"}
      [] data_type = "technical" -> {"row"}
      [] data_type = "sentiment" -> {"social_sentiment"}
      [] data_type = "fear_greed" -> {"fear_greed_index"}
      [] data_type = "fundamentals" -> {"market_cap"}
      [] data_type = "macro" -> {"sp500_returns"}
      [] OTHER -> {"tx_volume"}

\* df = pd.read_csv(file_path); df[key] = pd.to_datetime(df[key]): whether
\* one of them raises (no byte to parse, no key column, unparsable value)
ReadRaises(file, data_type) ==
    \/ file.kind \in {"zero_bytes", "csv_bad_ts"}
    \/ file.rows # <<>> /\ TsColumn(data_type) \notin DOMAIN file.rows[1]

RECURSIVE SortValues(_, _)
\* df.sort_values(col)
SortValues(rows, col) ==
    IF rows = <<>> THEN <<>>
    ELSE LET m == ColumnMin(rows, col)
             i == CHOOSE j \in 1..Len(rows) :
                      /\ rows[j][col] = m
                      /\ \A k \in 1..(j - 1) : rows[k][col] # m
         IN  <<rows[i]>> \o
             SortValues(SubSeq(rows, 1, i - 1) \o SubSeq(rows, i + 1, Len(rows)), col)

\* faulty variant: the join has no tolerance
WithinToleranceAlways(diff) == TRUE

\* faulty variant: a row exactly the tolerance away is not joined
WithinToleranceStrict(diff) == diff < Tolerance

\* a candidate row is kept if its distance does not exceed the tolerance
WithinTolerance(diff) == diff <= Tolerance

\* direction='nearest': the index of the row of right (sorted by key) that
\* merge_asof joins to a left row of key t, 0 for none.  The candidates are
\* the last row at or before t and the first row at or after t, each within
\* the tolerance; of two, the nearer one, the earlier one on a tie.
Nearest(t, right, key) ==
    LET back == {i \in 1..Len(right) :
                    right[i][key] <= t /\ WithinTolerance(t - right[i][key])}
        fwd == {i \in 1..Len(right) :
                    right[i][key] >= t /\ WithinTolerance(right[i][key] - t)}
        b == CHOOSE i \in back : \A j \in back : j <= i
        f == CHOOSE i \in fwd : \A j \in fwd : i <= j
    IN  IF back # {} /\ fwd # {}
        THEN IF t - right[b][key] <= right[f][key] - t THEN b ELSE f
        ELSE IF back # {} THEN b
        ELSE IF fwd # {} THEN f
        ELSE 0

\* faulty variant: an inner join, the left rows nothing was joined to are
\* dropped
merge_asof_inner(left, right, key, columns) ==
    LET kept == SelectSeq(left, LAMBDA r : Nearest(r.open_time, right, key) # 0)
    IN  [i \in 1..Len(kept) |->
            LET j == Nearest(kept[i].open_time, right, key)
            IN  [c \in DOMAIN kept[i] \cup columns |->
                    IF c \in DOMAIN kept[i] THEN kept[i][c] ELSE <<right[j][c]>>]]

\* pd.merge_asof(left, right, left_on='open_time', right_on=key, ...) and the
\* drop of the key column: every left row, extended by the value columns of
\* the right row joined to it
merge_asof(left, right, key, columns) ==
    [i \in 1..Len(left) |->
        LET j == Nearest(left[i].open_time, right, key)
        IN  [c \in DOMAIN left[i] \cup columns |->
                IF c \in DOMAIN left[i] THEN left[i][c]
                ELSE IF j = 0 THEN <<>> ELSE <<right[j][c]>>]]

\* which rows merge_asof joined: (data type, open_time, timestamp of the row
\* of the data type's table)
Joined(left, right, key, data_type) ==
    {[data_type |-> data_type, open_time |-> left[i].open_time,
      timestamp |-> right[Nearest(left[i].open_time, right, key)][key]] :
        i \in {k \in 1..Len(left) : Nearest(left[k].open_time, right, key) # 0}}

\* combined_data = df.rename(columns={key: 'open_time'})
Renamed(rows, key, columns) ==
    [i \in 1..Len(rows) |->
        [c \in {"open_time"} \cup columns |->
            IF c = "open_time" THEN rows[i][key] ELSE <<rows[i][c]>>]]

\* combined_data = None
NoFrame == [state |-> "none", columns |-> {}, rows |-> <<>>, joins |-> {}]

RECURSIVE MergeLoop(_, _, _)
\* the loop over data_types from its i-th turn on, combined_data being acc;
\* state "raised" is an exception on its way to the handler of the method
MergeLoop(fs, i, acc) ==
    IF i > Len(MergeOrder) \/ acc.state = "raised" THEN acc
    ELSE LET data_type == MergeOrder[i]
             file == fs[data_type]
             key == TsColumn(data_type)
             columns == ValueColumns(data_type)
         IN  IF file.kind = "absent" THEN MergeLoop(fs, i + 1, acc)
             ELSE IF ReadRaises(file, data_type)
             THEN [acc EXCEPT !.state = "raised"]
             ELSE IF acc.state = "none"
             THEN MergeLoop(fs, i + 1,
                            [state |-> "frame", columns |-> columns,
                             rows |-> Renamed(file.rows, key, columns),
                             joins |-> {}])
             ELSE LET left == SortValues(acc.rows, "open_time")
                      right == SortValues(file.rows, key)
                  IN  MergeLoop(fs, i + 1,
                                [state |-> "frame",
                                 columns |-> acc.columns \cup columns,
                                 rows |-> merge_asof(left, right, key, columns),
                                 joins |-> acc.joins \cup
                                           Joined(left, right, key, data_type)])

\* faulty variant: to_csv in append mode
to_csv_append(combined_file, rows) == CsvFile(combined_file.rows \o rows)

\* combined_data.to_csv(combined_path, index=False)
to_csv(combined_file, rows) == CsvFile(rows)

\* faulty variant: without the OHLCV file there is nothing to merge onto
merge_needs_ohlcv(fs, combined_file) ==
    LET m == MergeLoop(fs, 1, NoFrame)
    IN  IF m.state = "frame" /\ fs["ohlcv"].kind # "absent"
        THEN [outcome |-> "merged", df |-> DF(m.rows, "datetime"),
              columns |-> m.columns, joins |-> m.joins,
              combined |-> to_csv(combined_file, m.rows)]
        ELSE [outcome |-> IF m.state = "raised" THEN "swallowed" ELSE "nothing",
              df |-> EmptyDF, columns |-> {}, joins |-> {},
              combined |-> combined_file]

\* merge_data_for_training on the cache files fs and the combined file: the
\* table returned, its columns, the combined file left behind and the joins
\* made.  An exception is logged and an empty table returned.
merge_data_for_training(fs, combined_file) ==
    LET m == MergeLoop(fs, 1, NoFrame)
    IN  IF m.state = "frame"
        THEN [outcome |-> "merged", df |-> DF(m.rows, "datetime"),
              columns |-> m.columns, joins |-> m.joins,
              combined |-> to_csv(combined_file, m.rows)]
        ELSE [outcome |-> IF m.state = "raised" THEN "swallowed" ELSE "nothing",
              df |-> EmptyDF, columns |-> {}, joins |-> {},
              combined |-> combined_file]

(***************************************************************************)
(* State                                                                   *)
(***************************************************************************)
VARIABLES
    now,        \* the clock: what datetime.now() returns
    files,      \* the cache file of each data type of (symbol, interval)
    active,     \* the fetcher whose fetch_and_store is running, or "none"
    pc,         \* where the running fetch_and_store stands
    args,       \* the arguments of the running fetch_and_store
    chk,        \* the outcome of the cache check of the running fetch_and_store
    cursor,     \* current_time of the OHLCV pagination loop
    all_ohlcv,  \* the pages the OHLCV pagination loop has collected
    all_order_books, \* the snapshots the order-book loop has collected
    reqLog,     \* the external requests the running fetch_and_store has issued
    ret,        \* how the last fetch_and_store ended, with the files around it
    mgrPc,      \* where DataManager.fetch_and_store_all stands
    invoked,    \* the fetchers invoked since the last top-level call
    calls,      \* number of top-level calls made
    crashes,    \* number of interrupted writes suffered
    combined,   \* the combined cache file of (symbol, interval)
    mret,       \* how the last merge_data_for_training ended
    merges,     \* number of merges made
    spc,        \* where the caller of stream_live_price stands
    ws,         \* the state of the WebSocketApp run by the background thread
    received,   \* the messages handed to on_message, in arrival order
    delivered,  \* the trade_data on_message_callback was invoked with, in order
    connections \* number of connections the WebSocketApp has opened

\* the state of BinanceMarketData's trade stream
streamVars == <<spc, ws, received, delivered, connections>>

\* the state of the ingestion classes and of their files
ingestVars ==
    <<now, files, active, pc, args, chk, cursor, all_ohlcv, all_order_books,
      reqLog, ret, mgrPc, invoked, calls, crashes,
      combined, mret, merges>>

vars ==
    <<now, files, active, pc, args, chk, cursor, all_ohlcv, all_order_books,
      reqLog, ret, mgrPc, invoked, calls, crashes,
      combined, mret, merges, spc, ws, received, delivered, connections>>

NoArgs ==
    [ohlcv_data |-> EmptyDF, start_date |-> 0, start_kind |-> "none", end_date |-> 0]

NoCheck ==
    [who |-> "none", status |-> "none", fresh |-> FALSE, df |-> EmptyDF,
     at |-> 0, files |-> [d \in DataTypes |-> AbsentFile]]

NoReturn ==
    [who |-> "none", status |-> "none", df |-> EmptyDF, fresh |-> FALSE,
     requests |-> <<>>, pages |-> <<>>,
     before |-> [d \in DataTypes |-> AbsentFile],
     after |-> [d \in DataTypes |-> AbsentFile], at |-> 0]

NoMerge ==
    [outcome |-> "none", df |-> EmptyDF, columns |-> {}, joins |-> {},
     combined |-> AbsentFile]

Init ==
    /\ now = ListingTime - 1
    /\ files = [d \in DataTypes |-> AbsentFile]
    /\ active = "none"
    /\ pc = "idle"
    /\ args = NoArgs
    /\ chk = NoCheck
    /\ cursor = 0
    /\ all_ohlcv = <<>>
    /\ all_order_books = <<>>
    /\ reqLog = <<>>
    /\ ret = NoReturn
    /\ mgrPc = "none"
    /\ invoked = <<>>
    /\ calls = 0
    /\ crashes = 0
    /\ combined = AbsentFile
    /\ mret = NoMerge
    /\ merges = 0
    /\ spc = "idle"
    /\ ws = "none"
    /\ received = <<>>
    /\ delivered = <<>>
    /\ connections = 0

(***************************************************************************)
(* DataManager.fetch_and_store_all: what follows the end of the            *)
(* fetch_and_store of data_type.  Outside a manager run the caller is idle *)
(* again.  Inside one, an exception leaves the method; an empty OHLCV      *)
(* table makes it return early; otherwise the next fetcher of the order is *)
(* called, the arguments being those derived from the OHLCV table.         *)
(***************************************************************************)
Stop(m) == [active |-> "none", pc |-> "idle", mgrPc |-> m, args |-> args]

\* faulty variant: after technical the order book is called a second time
NextFetcherAgain(data_type) ==
    IF data_type = "technical" THEN "orderbook"
    ELSE LET i == CHOOSE j \in 1..Len(ManagerOrder) : ManagerOrder[j] = data_type
         IN  IF i = Len(ManagerOrder) THEN "none" ELSE ManagerOrder[i + 1]

NextFetcher(data_type) ==
    LET i == CHOOSE j \in 1..Len(ManagerOrder) : ManagerOrder[j] = data_type
    IN  IF i = Len(ManagerOrder) THEN "none" ELSE ManagerOrder[i + 1]

\* faulty variant: an empty OHLCV table does not end the run
ContinueOnEmptyOhlcv(data_type, status, df) ==
    IF mgrPc # "running" THEN Stop(mgrPc)
    ELSE IF status = "raised" THEN Stop("raised")
    ELSE IF data_type = "ohlcv"
    THEN [active |-> "orderbook", pc |-> "check", mgrPc |-> "running",
          args |-> [ohlcv_data |-> df,
                    start_date |-> IF IsEmpty(df) THEN 0
                                   ELSE ColumnMin(df.rows, "open_time"),
                    start_kind |-> df.ts,
                    end_date |-> now]]
    ELSE IF NextFetcher(data_type) = "none" THEN Stop("returned")
    ELSE [active |-> NextFetcher(data_type), pc |-> "check", mgrPc |-> "running",
          args |-> args]

\* faulty variant: an exception of a fetcher is swallowed at the call site
\* and the next fetcher is called
ContinueAfterRaise(data_type, status, df) ==
    IF mgrPc # "running" THEN Stop(mgrPc)
    ELSE IF NextFetcher(data_type) = "none" THEN Stop("returned")
    ELSE [active |-> NextFetcher(data_type), pc |-> "check", mgrPc |-> "running",
          args |-> args]

fetch_and_store_all(data_type, status, df) ==
    IF mgrPc # "running" THEN Stop(mgrPc)
    ELSE IF status = "raised" THEN Stop("raised")
    ELSE IF data_type = "ohlcv"
    THEN IF IsEmpty(df) THEN Stop("aborted")
         ELSE [active |-> "orderbook", pc |-> "check", mgrPc |-> "running",
               args |-> [ohlcv_data |-> df,
                         start_date |-> ColumnMin(df.rows, "open_time"),
                         start_kind |-> df.ts,
                         end_date |-> now]]
    ELSE IF NextFetcher(data_type) = "none" THEN Stop("returned")
    ELSE [active |-> NextFetcher(data_type), pc |-> "check", mgrPc |-> "running",
          args |-> args]

\* the end of the fetch_and_store of data_type: it returned df or raised,
\* having issued the requests log and left the files fs
Finish(data_type, status, df, fs, log, c) ==
    /\ files' = fs
    /\ reqLog' = log
    /\ ret' = [who |-> data_type, status |-> status, df |-> df, fresh |-> c.fresh,
               requests |-> log,
               pages |-> IF data_type = "ohlcv" THEN all_ohlcv' ELSE <<>>,
               before |-> c.files, after |-> fs, at |-> now]
    /\ LET k == fetch_and_store_all(data_type, status, df)
       IN  /\ active' = k.active
           /\ pc' = k.pc
           /\ mgrPc' = k.mgrPc
           /\ args' = k.args

(***************************************************************************)
(* Top-level calls.  A behaviour ingests first and merges afterwards: no   *)
(* fetch call follows a merge.                                             *)
(***************************************************************************)
\* the arguments a direct caller passes to the fetch_and_store of data_type
DirectArgs(data_type) ==
    IF data_type = "ohlcv" THEN {NoArgs}
    ELSE IF data_type \in TakesOhlcv
    THEN {[NoArgs EXCEPT !.ohlcv_data = df] :
            df \in {EmptyDF,
                    DF(<<Candle(ListingTime), Candle(ListingTime + Interval)>>,
                       "datetime")}}
    ELSE {[NoArgs EXCEPT !.start_date = ListingTime, !.start_kind = "datetime",
                         !.end_date = now]}

\* what the variables hold of the call before is of no use to the next one
ForgetLastCall ==
    /\ chk' = NoCheck
    /\ cursor' = 0
    /\ all_ohlcv' = <<>>
    /\ all_order_books' = <<>>
    /\ reqLog' = <<>>
    /\ ret' = NoReturn

\* X(symbol).fetch_and_store(...) called directly
CallFetchAndStore(data_type) ==
    /\ pc = "idle"
    /\ calls < MaxCalls
    /\ merges = 0
    /\ \E a \in DirectArgs(data_type) : args' = a
    /\ active' = data_type
    /\ pc' = "check"
    /\ mgrPc' = "none"
    /\ invoked' = <<>>
    /\ calls' = calls + 1
    /\ ForgetLastCall
    /\ UNCHANGED <<now, files, crashes, combined, mret, merges, streamVars>>

\* DataManager(symbol).fetch_and_store_all() called
CallFetchAndStoreAll ==
    /\ pc = "idle"
    /\ calls < MaxCalls
    /\ merges = 0
    /\ args' = NoArgs
    /\ active' = "ohlcv"
    /\ pc' = "check"
    /\ mgrPc' = "running"
    /\ invoked' = <<>>
    /\ calls' = calls + 1
    /\ ForgetLastCall
    /\ UNCHANGED <<now, files, crashes, combined, mret, merges, streamVars>>

(***************************************************************************)
(* The single-step sources after a stale or absent cache: technical and    *)
(* sentiment (computed locally), fear_greed, fundamentals, macro, onchain  *)
(* (one request).  Their fetch methods catch every exception and return an *)
(* empty table instead.                                                    *)
(***************************************************************************)
\* whether the fetch of data_type gets as far as sending its request
SendsRequest(data_type, a) ==
    /\ Endpoint(data_type) # "none"
    /\ ~(data_type \in {"fundamentals", "onchain"} /\ a.start_kind = "string")

\* the table the fetch method of data_type returns
FetchResult(data_type, a, outcome, t) ==
    IF data_type = "technical" THEN compute_technical_indicators(a.ohlcv_data)
    ELSE IF data_type = "sentiment"
    THEN fetch_social_sentiment(a.start_date, a.end_date)
    ELSE IF ~SendsRequest(data_type, a) \/ outcome # "ok" THEN EmptyDF
    ELSE IF data_type = "fear_greed"
    THEN fetch_fear_and_greed_index(a.start_date, a.end_date, FearGreedIndex)
    ELSE IF data_type = "fundamentals"
    THEN fetch_fundamental_data(a.start_date, a.end_date, UpstreamDaily(t))
    ELSE IF data_type = "macro"
    THEN fetch_macro_data(a.start_date, a.end_date, UpstreamDaily(t))
    ELSE fetch_onchain_data(a.start_date, a.end_date, UpstreamDaily(t))

(***************************************************************************)
(* fetch_and_store, common head: the cache check and what it decides.      *)
(***************************************************************************)
\* faulty variant: the verdict of the cache check is ignored
ServeNever(r) == FALSE

\* if is_up_to_date: return df
ServeFromCache(r) == r.fresh

\* faulty variant: without OHLCV rows the table the check read is returned
NoAlignmentStale(df) == df

\* if ohlcv_data.empty: return pd.DataFrame()
NoAlignment(df) == EmptyDF

CheckCache(data_type) ==
    /\ pc = "check"
    /\ active = data_type
    /\ LET r == _check_local_data(files[data_type], data_type, now)
           c == [who |-> data_type, status |-> r.status, fresh |-> r.fresh,
                 df |-> r.df, at |-> now, files |-> files]
       IN  /\ chk' = c
           /\ invoked' = Append(invoked, data_type)
           /\ cursor' = 0
           /\ all_ohlcv' = <<>>
           /\ all_order_books' = <<>>
           /\ IF r.status = "raised"
              THEN Finish(data_type, "raised", EmptyDF, files, <<>>, c)
              ELSE IF ServeFromCache(r)
              THEN Finish(data_type, "returned", r.df, files, <<>>, c)
              ELSE IF data_type = "orderbook" /\ IsEmpty(args.ohlcv_data)
              THEN Finish(data_type, "returned", NoAlignment(r.df), files, <<>>, c)
              ELSE IF Endpoint(data_type) = "none" /\ data_type \in Auxiliary \ {"orderbook"}
              THEN LET df == FetchResult(data_type, args, "ok", now)
                   IN  Finish(data_type, "returned", df,
                              _save_data(files, df, data_type), <<>>, c)
              ELSE /\ pc' = CASE data_type = "ohlcv" -> "exchangeInfo"
                              [] data_type = "orderbook" -> "depth"
                              [] OTHER -> "fetch"
                   /\ reqLog' = <<>>
                   /\ UNCHANGED <<files, active, args, ret, mgrPc>>
    /\ UNCHANGED <<now, calls, crashes, combined, mret, merges, streamVars>>

(***************************************************************************)
(* OHLCVData.fetch_and_store after a stale or absent cache.  Every request *)
(* may fail (requests.exceptions.RequestException or a bad status), and    *)
(* every exception is logged and raised again.                             *)
(***************************************************************************)
\* _get_symbol_listing_date: the exchangeInfo request and the symbol lookup
OhlcvExchangeInfo ==
    /\ pc = "exchangeInfo"
    /\ active = "ohlcv"
    /\ UNCHANGED <<now, chk, cursor, all_ohlcv, all_order_books, invoked, calls,
                   crashes, combined, mret, merges, streamVars>>
    /\ \E outcome \in {"ok", "error", "unlisted"} :
           LET log == Append(reqLog, Answered(Request("exchangeInfo"), outcome))
           IN  IF outcome = "ok"
               THEN /\ pc' = "probe"
                    /\ reqLog' = log
                    /\ UNCHANGED <<files, active, args, ret, mgrPc>>
               ELSE Finish("ohlcv", "raised", EmptyDF, files, log, chk)

\* _get_symbol_listing_date: fetch_historical_ohlcv(limit=1, start_time=0)
\* and the open_time of the row it returns
OhlcvProbe ==
    /\ pc = "probe"
    /\ active = "ohlcv"
    /\ UNCHANGED <<now, chk, all_ohlcv, all_order_books, invoked, calls, crashes,
                   combined, mret, merges, streamVars>>
    /\ \E outcome \in {"ok", "error"} :
           LET log == Append(reqLog, Answered(KlinesRequest(ProbeLimit, 0), outcome))
               klines == fetch_historical_ohlcv(ProbeLimit, 0, now)
           IN  IF outcome = "ok" /\ klines # <<>>
               THEN /\ cursor' = klines[1].open_time
                    /\ pc' = "page"
                    /\ reqLog' = log
                    /\ UNCHANGED <<files, active, args, ret, mgrPc>>
               ELSE /\ Finish("ohlcv", "raised", EmptyDF, files, log, chk)
                    /\ UNCHANGED cursor

\* faulty variant: the cursor restarts at the last candle received
CursorAtLastOpen(df_ohlcv) == df_ohlcv[Len(df_ohlcv)].open_time

\* faulty variant: the cursor is the close of the last candle received
CursorAtLastClose(df_ohlcv) == df_ohlcv[Len(df_ohlcv)].close_time

\* current_time = int(df_ohlcv['close_time'].iloc[-1].timestamp() * 1000) + 1
NextCursor(df_ohlcv) == df_ohlcv[Len(df_ohlcv)].close_time + 1

\* faulty variant: a short page does not end the loop
NeverLastPage(df_ohlcv) == FALSE

\* if len(df_ohlcv) < 1000: break
LastPage(df_ohlcv) == Len(df_ohlcv) < PageLimit

\* faulty variant: the concatenated table is returned without being saved
OhlcvReturnUnsaved(pages, log) ==
    Finish("ohlcv", "returned", DF(Concat(pages), "datetime"), files, log, chk)

\* the end of the pagination loop: concatenate, save, return
OhlcvStore(pages, log) ==
    IF pages # <<>>
    THEN LET full_ohlcv == DF(Concat(pages), "datetime")
         IN  Finish("ohlcv", "returned", full_ohlcv,
                    _save_data(files, full_ohlcv, "ohlcv"), log, chk)
    ELSE Finish("ohlcv", "returned", EmptyDF, files, log, chk)

\* faulty variant: the rows collected before the failure are saved
SavePartial(fs, rows, data_type) == _save_data(fs, DF(rows, "datetime"), data_type)

\* except Exception: ... raise, in the middle of a loop: the rows collected
\* so far are dropped and the files stay as they are
Reraise(fs, rows, data_type) == fs

\* one turn of the pagination loop: the page request, the two exits
OhlcvPage ==
    /\ pc = "page"
    /\ active = "ohlcv"
    /\ \E outcome \in {"ok", "error", "empty"} :
           LET log == Append(reqLog, Answered(KlinesRequest(PageLimit, cursor), outcome))
               df_ohlcv == IF outcome = "empty" THEN <<>>
                           ELSE fetch_historical_ohlcv(PageLimit, cursor, now)
           IN  IF outcome = "error"
               THEN /\ UNCHANGED <<cursor, all_ohlcv>>
                    /\ Finish("ohlcv", "raised", EmptyDF,
                              Reraise(files, Concat(all_ohlcv), "ohlcv"), log, chk)
               ELSE IF df_ohlcv = <<>>
               THEN /\ UNCHANGED <<cursor, all_ohlcv>>
                    /\ OhlcvStore(all_ohlcv, log)
               ELSE /\ all_ohlcv' = Append(all_ohlcv, df_ohlcv)
                    /\ cursor' = NextCursor(df_ohlcv)
                    /\ IF LastPage(df_ohlcv)
                       THEN OhlcvStore(Append(all_ohlcv, df_ohlcv), log)
                       ELSE /\ reqLog' = log
                            /\ UNCHANGED <<files, active, pc, args, ret, mgrPc>>
    /\ UNCHANGED <<now, chk, all_order_books, invoked, calls, crashes,
                   combined, mret, merges, streamVars>>

(***************************************************************************)
(* OrderBookData.fetch_and_store after a stale or absent cache: one depth  *)
(* request per OHLCV open_time.  int(timestamp.timestamp() * 1000) needs a *)
(* datetime; on the strings of a table read from CSV it raises.  A failed  *)
(* request and a response without bids/asks both raise.                    *)
(***************************************************************************)
OrderBookDepth ==
    /\ pc = "depth"
    /\ active = "orderbook"
    /\ IF args.ohlcv_data.ts = "string"
       THEN /\ Finish("orderbook", "raised", EmptyDF, files, reqLog, chk)
            /\ UNCHANGED all_order_books
       ELSE \E outcome \in {"ok", "error", "malformed"} :
                LET log == Append(reqLog, Answered(Request("depth"), outcome))
                    i == Len(all_order_books) + 1
                    order_book == [timestamp |-> args.ohlcv_data.rows[i].open_time,
                                   bid_ask_spread |-> 0]
                    books == Append(all_order_books, order_book)
                IN  IF outcome # "ok"
                    THEN /\ Finish("orderbook", "raised", EmptyDF,
                                   Reraise(files, all_order_books, "orderbook"),
                                   log, chk)
                         /\ UNCHANGED all_order_books
                    ELSE /\ all_order_books' = books
                         /\ IF i = Len(args.ohlcv_data.rows)
                            THEN LET full == DF(books, "datetime")
                                 IN  Finish("orderbook", "returned", full,
                                            _save_data(files, full, "orderbook"),
                                            log, chk)
                            ELSE /\ reqLog' = log
                                 /\ UNCHANGED <<files, active, pc, args, ret, mgrPc>>
    /\ UNCHANGED <<now, chk, cursor, all_ohlcv, invoked, calls, crashes,
                   combined, mret, merges, streamVars>>

AuxFetch(data_type) ==
    /\ pc = "fetch"
    /\ active = data_type
    /\ Endpoint(data_type) # "none"
    /\ \E outcome \in IF SendsRequest(data_type, args)
                      THEN {"ok", "error", "malformed"} ELSE {"ok"} :
           LET df == FetchResult(data_type, args, outcome, now)
               log == IF SendsRequest(data_type, args)
                      THEN Append(reqLog,
                                  Answered(Request(Endpoint(data_type)), outcome))
                      ELSE reqLog
           IN  Finish(data_type, "returned", df, _save_data(files, df, data_type),
                      log, chk)
    /\ UNCHANGED <<now, chk, cursor, all_ohlcv, all_order_books, invoked, calls,
                   crashes, combined, mret, merges, streamVars>>

(***************************************************************************)
(* Environment                                                             *)
(***************************************************************************)
\* time passes
Tick ==
    /\ now < MaxTime
    /\ now' = now + 1
    /\ UNCHANGED <<files, active, pc, args, chk, cursor, all_ohlcv,
                   all_order_books, reqLog, ret, mgrPc, invoked, calls, crashes,
      combined, mret, merges, streamVars>>

\* to_csv is not atomic: a process killed while it writes leaves the file
\* cut short: no byte at all, the header only, the header cut before the
\* timestamp column, or the newest timestamp cut to something unparsable
DropColumn(rows, col) ==
    [i \in 1..Len(rows) |-> [c \in DOMAIN rows[i] \ {col} |-> rows[i][c]]]

Truncated(file, data_type) ==
    {[kind |-> "zero_bytes", rows |-> <<>>],
     [kind |-> "csv", rows |-> <<>>],
     [kind |-> "csv", rows |-> DropColumn(file.rows, TsColumn(data_type))],
     [kind |-> "csv_bad_ts", rows |-> file.rows]}

\* the process is killed during the last write it made: the call that was
\* saving data_type never returned, and the next call is made by a new
\* process
CrashMidWrite(data_type) ==
    /\ pc = "idle"
    /\ crashes < MaxCrashes
    /\ ret.who = data_type
    /\ ret.status = "returned"
    /\ ~ret.fresh
    /\ ~IsEmpty(ret.df)
    /\ files[data_type] = ret.after[data_type]
    /\ crashes' = crashes + 1
    /\ \E f \in Truncated(files[data_type], data_type) :
           files' = [files EXCEPT ![data_type] = f]
    /\ mgrPc' = "none"
    /\ invoked' = <<>>
    /\ ForgetLastCall
    /\ UNCHANGED <<now, active, pc, args, calls, combined, mret, merges, streamVars>>

\* DataManager(symbol).merge_data_for_training() called; the method shares
\* nothing but the files with the fetch calls made before it
CallMergeDataForTraining ==
    /\ pc = "idle"
    /\ merges < MaxMerges
    /\ pc' = "merge"
    /\ args' = NoArgs
    /\ mgrPc' = "none"
    /\ invoked' = <<>>
    /\ ForgetLastCall
    /\ UNCHANGED <<now, files, active, calls, crashes, combined, mret, merges, streamVars>>

\* the body of merge_data_for_training, up to its return
MergeDataForTraining ==
    /\ pc = "merge"
    /\ mret' = merge_data_for_training(files, combined)
    /\ combined' = mret'.combined
    /\ merges' = merges + 1
    /\ pc' = "idle"
    /\ UNCHANGED <<now, files, active, args, chk, cursor, all_ohlcv,
                   all_order_books, reqLog, ret, mgrPc, invoked, calls, crashes,
                   streamVars>>

Next ==
    \/ \E d \in DataTypes : CallFetchAndStore(d)
    \/ CallFetchAndStoreAll
    \/ \E d \in DataTypes : CheckCache(d)
    \/ OhlcvExchangeInfo
    \/ OhlcvProbe
    \/ OhlcvPage
    \/ OrderBookDepth
    \/ \E d \in TakesRange \ {"sentiment"} : AuxFetch(d)
    \/ \E d \in DataTypes : CrashMidWrite(d)
    \/ CallMergeDataForTraining
    \/ MergeDataForTraining
    \/ Tick

Spec == Init /\ [][Next]_vars

(***************************************************************************)
(* BinanceMarketData.stream_live_price.  The class shares nothing with the *)
(* ingestion classes above, so its behaviours are those of a specification *)
(* of their own.  The caller creates the WebSocketApp, starts a daemon     *)
(* thread on ws.run_forever and returns; the thread connects and hands     *)
(* every frame it receives to on_message, until the connection ends.       *)
(***************************************************************************)
\* how many messages a behaviour receives at most
MaxMessages == 4

\* the prices a trade message can carry
Prices == {1, 2}

\* the trade-stream frames: data["p"] is <<price>>, or <<>> when the frame
\* has no "p" (any frame that is not a trade); data["T"] is the trade time
Messages(T) == {[p |-> p, q |-> 1, T |-> T] : p \in {<<>>} \cup {<<x>> : x \in Prices}}

\* float(data["p"]) does not raise
WellFormed(message) == message.p # <<>>

\* trade_data = {"price": ..., "quantity": ..., "timestamp": ...}
TradeData(message) ==
    [price |-> message.p[1], quantity |-> message.q, timestamp |-> message.T]

\* faulty variant: the callback is also invoked from the except branch
on_message_always(message, log) ==
    IF WellFormed(message) THEN Append(log, TradeData(message))
    ELSE Append(log, [price |-> 0, quantity |-> 0, timestamp |-> message.T])

\* on_message: the invocations of on_message_callback so far, log, and those
\* after the message was handled.  Whatever a frame without the trade
\* fields or the callback itself raises is logged and swallowed.
on_message(message, log) ==
    IF WellFormed(message) THEN Append(log, TradeData(message)) ELSE log

\* stream_live_price up to thread.start()
StreamLivePrice ==
    /\ spc = "idle"
    /\ spc' = "started"
    /\ ws' = "connecting"
    /\ UNCHANGED <<received, delivered, connections, ingestVars>>

\* self.ws = ws; return ws
StreamReturn ==
    /\ spc = "started"
    /\ spc' = "returned"
    /\ UNCHANGED <<ws, received, delivered, connections, ingestVars>>

\* ws.run_forever in the thread: the connection is made, or fails
RunForeverConnect ==
    /\ ws = "connecting"
    /\ \E outcome \in {"ok", "error"} :
           IF outcome = "ok"
           THEN /\ ws' = "open"
                /\ connections' = connections + 1
           ELSE /\ ws' = "error"
                /\ UNCHANGED connections
    /\ UNCHANGED <<spc, received, delivered, ingestVars>>

\* a frame arrives and run_forever calls on_message with it
OnMessage ==
    /\ ws = "open"
    /\ Len(received) < MaxMessages
    /\ \E message \in Messages(Len(received) + 1) :
           /\ received' = Append(received, message)
           /\ delivered' = on_message(message, delivered)
    /\ UNCHANGED <<spc, ws, connections, ingestVars>>

\* the connection breaks: run_forever calls on_error, which logs
OnError ==
    /\ ws = "open"
    /\ ws' = "error"
    /\ UNCHANGED <<spc, received, delivered, connections, ingestVars>>

\* the connection ends (closed by a peer, or torn down after an error):
\* run_forever calls on_close, which logs, and returns; the thread ends
OnClose ==
    /\ ws \in {"open", "error"}
    /\ ws' = "closed"
    /\ UNCHANGED <<spc, received, delivered, connections, ingestVars>>

StreamNext ==
    \/ StreamLivePrice
    \/ StreamReturn
    \/ RunForeverConnect
    \/ OnMessage
    \/ OnError
    \/ OnClose

StreamSpec == Init /\ [][StreamNext]_vars

(***************************************************************************)
(* Properties                                                              *)
(***************************************************************************)
\* a fetch_and_store has ended and ret describes it
Ended == ret.status # "none"

\* the fetch_and_store described by ret refreshed: its cache check said stale
\* or absent and it returned
Refreshed == ret.status = "returned" /\ ~ret.fresh

\* the timestamp column of the rows exists and t - (its maximum) < window
NewerThan(rows, col, t, window) ==
    /\ rows # <<>>
    /\ col \in DOMAIN rows[1]
    /\ \E i \in 1..Len(rows) :
           /\ \A j \in 1..Len(rows) : rows[j][col] <= rows[i][col]
           /\ t - rows[i][col] < window

\* C1: for every fetcher variant, when the cache check reports the cached
\* table fresh, fetch_and_store returns exactly the cached table, issues no
\* external request and writes no file.
C1_FreshServedFromCache ==
    (Ended /\ ret.fresh) =>
        /\ ret.status = "returned"
        /\ ret.df.rows = ret.before[ret.who].rows
        /\ ret.requests = <<>>
        /\ ret.after = ret.before

C1_Witness ==
    /\ ret.status = "returned"
    /\ ret.fresh
    /\ ret.who = "onchain"
    /\ ret.df.rows # <<>>

\* C2: the cache check returns is_fresh = true if and only if the file
\* exists, has at least one row and now - max(timestamp column) is strictly
\* less than the freshness window, the column being open_time for ohlcv and
\* timestamp for every other data type.
C2_FreshIff ==
    chk.who # "none" =>
        LET file == chk.files[chk.who]
            col == IF chk.who = "ohlcv" THEN "open_time" ELSE "timestamp"
        IN  (chk.status = "ok" /\ chk.fresh) <=>
                /\ file.kind = "csv"
                /\ NewerThan(file.rows, col, chk.at, FreshnessWindow)

C2_Witness ==
    /\ chk.who = "ohlcv"
    /\ chk.status = "ok"
    /\ chk.fresh
    /\ ~NewerThan(chk.files["ohlcv"].rows, "open_time", chk.at, FreshnessWindow - 1)

\* C3 as stated: whenever the cache check returns is_fresh = false the table
\* it returns is empty (file absent, file without rows, file older than the
\* window); it returns (true, stored table) otherwise.
C3_StaleReturnsEmpty ==
    (chk.who # "none" /\ chk.status = "ok") =>
        IF chk.fresh THEN chk.df.rows = chk.files[chk.who].rows
        ELSE IsEmpty(chk.df)

\* C3 amended: when the cache check returns is_fresh = false, the table it
\* returns is empty if the file is absent or has no rows, and is the stored
\* table if the file's maximum timestamp is older than the window; it
\* returns (true, stored table) otherwise.
C3_StaleReturnsStored ==
    (chk.who # "none" /\ chk.status = "ok") =>
        LET file == chk.files[chk.who]
        IN  IF file.kind = "absent" \/ file.rows = <<>>
            THEN ~chk.fresh /\ IsEmpty(chk.df)
            ELSE chk.df = [rows |-> file.rows, ts |-> "string"]

C3_Witness ==
    /\ chk.who # "none"
    /\ chk.status = "ok"
    /\ ~chk.fresh
    /\ ~IsEmpty(chk.df)

\* a cache file cut short: no byte, no timestamp column, or a newest
\* timestamp that does not parse
IsCorrupt(file, data_type) ==
    \/ file.kind \in {"zero_bytes", "csv_bad_ts"}
    \/ /\ file.kind = "csv"
       /\ file.rows # <<>>
       /\ TsColumn(data_type) \notin DOMAIN file.rows[1]

\* C4: a corrupt or truncated cache file is treated as absent data: the
\* cache check returns (false, empty) without raising, and the enclosing
\* fetch_and_store does not end on the exception of the check.
C4_CorruptTreatedAsAbsent ==
    (chk.who # "none" /\ IsCorrupt(chk.files[chk.who], chk.who)) =>
        /\ chk.status = "ok"
        /\ ~chk.fresh
        /\ IsEmpty(chk.df)

\* C5: a save of a non-empty table leaves the cache file of its key holding
\* exactly the rows of the table (nothing kept, nothing appended); a save of
\* an empty table changes no file; no step ever deletes a cache file.
C5_SaveOverwrites ==
    [][/\ \A d \in DataTypes :
              files[d].kind # "absent" => files'[d].kind # "absent"
       /\ crashes' = crashes =>
              /\ \A d \in DataTypes :
                     files'[d] # files[d] =>
                         /\ ret'.who = d
                         /\ ~IsEmpty(ret'.df)
                         /\ files'[d] = [kind |-> "csv", rows |-> ret'.df.rows]
              /\ (ret' # ret /\ ret'.status = "returned" /\ ~ret'.fresh
                      /\ ~IsEmpty(ret'.df)) =>
                     files'[ret'.who] = [kind |-> "csv", rows |-> ret'.df.rows]
      ]_vars

C5_Witness ==
    /\ Refreshed
    /\ ~IsEmpty(ret.df)
    /\ ret.before[ret.who].kind = "csv"
    /\ ret.before[ret.who].rows # <<>>
    /\ ret.before[ret.who].rows # ret.df.rows
    /\ ret.after[ret.who].rows = ret.df.rows

\* C6: for every fetcher variant, when the cache check reports not fresh
\* and the fetch produces a non-empty table, the cache file of the fetcher's
\* key holds exactly the returned table at the moment of return.
C6_SavedBeforeReturn ==
    (Refreshed /\ ~IsEmpty(ret.df)) =>
        /\ ret.after[ret.who].kind = "csv"
        /\ ret.after[ret.who].rows = ret.df.rows

C6_Witness ==
    /\ Refreshed
    /\ ret.who = "ohlcv"
    /\ Len(ret.df.rows) = 2
    /\ ret.before["ohlcv"].kind = "absent"

\* the page requests among the requests of an OHLCV refresh: those after
\* the exchangeInfo request and the probe
PageRequests(log) == IF Len(log) > 2 THEN SubSeq(log, 3, Len(log)) ELSE <<>>

\* C7: the OHLCV pagination loop stops at the first page that is empty or
\* has fewer rows than the page size and issues no page request after it;
\* it issues at most one request per full page of the exchange's candles,
\* and one more.
C7_PaginationStops ==
    /\ (pc = "page" /\ active = "ohlcv") =>
           /\ Len(PageRequests(reqLog)) = Len(all_ohlcv)
           /\ \A i \in 1..Len(all_ohlcv) : Len(all_ohlcv[i]) = PageLimit
    /\ (Refreshed /\ ret.who = "ohlcv") =>
           LET n == Len(PageRequests(ret.requests))
           IN  /\ n >= 1
               /\ n \in {Len(ret.pages), Len(ret.pages) + 1}
               /\ \A i \in 1..(n - 1) : Len(ret.pages[i]) = PageLimit
               /\ n = Len(ret.pages) => Len(ret.pages[n]) < PageLimit
               /\ n <= CandleCount(ret.at) \div PageLimit + 1

C7_Witness ==
    /\ Refreshed
    /\ ret.who = "ohlcv"
    /\ Len(PageRequests(ret.requests)) = 2
    /\ Len(ret.pages) = 2
    /\ Len(ret.pages[1]) = PageLimit
    /\ Len(ret.pages[2]) < PageLimit

\* C8: the table an OHLCV refresh returns and saves is the concatenation of
\* the fetched pages in request order, and its open_time column is strictly
\* increasing, across page boundaries too.
C8_ConcatenatedIncreasing ==
    (Refreshed /\ ret.who = "ohlcv") =>
        LET rows == ret.df.rows
        IN  /\ rows = Concat(ret.pages)
            /\ \A i, j \in 1..Len(rows) :
                   i < j => rows[i].open_time < rows[j].open_time
            /\ ~IsEmpty(ret.df) => ret.after["ohlcv"].rows = rows

C8_Witness ==
    /\ Refreshed
    /\ ret.who = "ohlcv"
    /\ Len(ret.pages) = 2
    /\ Len(ret.df.rows) = PageLimit + 1

\* C9: an OHLCV refresh starts from the symbol's earliest available candle:
\* the start cursor of the first page request is the open_time of the
\* earliest candle the exchange holds.
C9_StartsAtEarliestCandle ==
    (pc = "page" /\ active = "ohlcv" /\ all_ohlcv = <<>>) =>
        cursor = Candles(now)[1].open_time

\* C10: a transport or HTTP failure of any OHLCV request makes
\* OHLCVData.fetch_and_store raise; inside fetch_and_store_all the
\* exception leaves the method and no auxiliary fetcher is invoked.
C10_OhlcvFailureIsFatal ==
    [][(/\ active = "ohlcv"
        /\ Len(reqLog') = Len(reqLog) + 1
        /\ reqLog'[Len(reqLog')].response = "error") =>
           /\ ret'.who = "ohlcv"
           /\ ret'.status = "raised"
           /\ active' = "none"
           /\ mgrPc = "running" =>
                  /\ mgrPc' = "raised"
                  /\ invoked' = <<"ohlcv">>
      ]_vars

C10_Witness ==
    /\ mgrPc = "raised"
    /\ ret.who = "ohlcv"
    /\ ret.status = "raised"
    /\ Len(ret.requests) = 4
    /\ ret.requests[4].response = "error"
    /\ invoked = <<"ohlcv">>

\* a request of the log was answered by a transport or HTTP failure
HasFailedRequest(log) == \E i \in 1..Len(log) : log[i].response = "error"

\* C11: for every auxiliary source a transport or HTTP failure during its
\* fetch is swallowed: its fetch_and_store returns an empty table and does
\* not raise.
C11_AuxFailureSwallowed ==
    (Ended /\ ret.who \in Auxiliary /\ HasFailedRequest(ret.requests)) =>
        /\ ret.status = "returned"
        /\ IsEmpty(ret.df)

\* the number of times data_type was invoked since the last top-level call
Invocations(data_type) == Cardinality({i \in DOMAIN invoked : invoked[i] = data_type})

\* C12: in fetch_and_store_all with a non-empty OHLCV table, a failure of an
\* auxiliary fetcher does not block the others: once the run has ended,
\* every auxiliary fetcher of the call order has been invoked.
C12_AuxFailuresIndependent ==
    (mgrPc \in {"returned", "raised"} /\ Len(invoked) >= 2) =>
        \A i \in 2..Len(ManagerOrder) : Invocations(ManagerOrder[i]) = 1

\* C13: when the OHLCV fetch returns an empty table, fetch_and_store_all
\* returns without raising, invokes no auxiliary fetcher and writes no cache
\* file.
C13_EmptyOhlcvAborts ==
    [][(/\ mgrPc = "running"
        /\ active = "ohlcv"
        /\ ret' # ret
        /\ ret'.status = "returned"
        /\ IsEmpty(ret'.df)) =>
           /\ mgrPc' = "aborted"
           /\ active' = "none"
           /\ pc' = "idle"
           /\ invoked' = <<"ohlcv">>
           /\ files' = files
           /\ ret'.after = ret'.before
      ]_vars

C13_Witness ==
    /\ mgrPc = "aborted"
    /\ ret.who = "ohlcv"
    /\ ret.status = "returned"
    /\ IsEmpty(ret.df)
    /\ Len(ret.requests) = 3
    /\ invoked = <<"ohlcv">>

\* C14: when the OHLCV table is non-empty and no fetch fails, one run of
\* fetch_and_store_all invokes every other fetcher (order book, technical,
\* sentiment, fear/greed, fundamentals, macro, on-chain) exactly once, the
\* range-taking ones with (start, end) = (min(open_time), now).
C14_InvokesEveryFetcherOnce ==
    (/\ mgrPc = "returned"
     /\ \A i \in 1..Len(ManagerOrder) :
            files[ManagerOrder[i]].kind = "csv" /\ files[ManagerOrder[i]].rows # <<>>) =>
        /\ \A d \in Auxiliary : Invocations(d) = 1
        /\ args.start_date = ColumnMin(args.ohlcv_data.rows, "open_time")
        /\ args.end_date <= now

\* C15 as stated: OrderBookData.fetch_and_store called with an empty OHLCV
\* table returns an empty table and issues no HTTP call, whether the
\* order-book cache file is absent, stale or fresh.
C15_EmptyOhlcvReturnsEmpty ==
    (/\ Ended
     /\ ret.who = "orderbook"
     /\ IsEmpty(args.ohlcv_data)
     /\ ~IsCorrupt(ret.before["orderbook"], "orderbook")) =>
        /\ ret.status = "returned"
        /\ IsEmpty(ret.df)
        /\ ret.requests = <<>>

\* C15 amended: OrderBookData.fetch_and_store called with an empty OHLCV
\* table issues no HTTP call and writes no file; it returns the cached table
\* when the order-book cache file is fresh and an empty table when the file
\* is absent or stale.
C15_EmptyOhlcvNoRequest ==
    (/\ Ended
     /\ ret.who = "orderbook"
     /\ IsEmpty(args.ohlcv_data)
     /\ ~IsCorrupt(ret.before["orderbook"], "orderbook")) =>
        /\ ret.status = "returned"
        /\ ret.requests = <<>>
        /\ ret.after = ret.before
        /\ IF ret.fresh
           THEN ret.df.rows = ret.before["orderbook"].rows /\ ~IsEmpty(ret.df)
           ELSE IsEmpty(ret.df)

C15_Witness ==
    /\ Ended
    /\ ret.who = "orderbook"
    /\ IsEmpty(args.ohlcv_data)
    /\ ~ret.fresh
    /\ ret.before["orderbook"].kind = "csv"
    /\ ret.before["orderbook"].rows # <<>>
    /\ ret.status = "returned"
    /\ IsEmpty(ret.df)

\* a cache file as a save leaves it: rows under a header with the timestamp
\* column
Intact(file, data_type) ==
    /\ file.kind = "csv"
    /\ file.rows # <<>>
    /\ TsColumn(data_type) \in DOMAIN file.rows[1]

\* every cache file that exists is intact
PresentFilesIntact == \A d \in DataTypes : files[d].kind # "absent" => Intact(files[d], d)

Distance(a, b) == IF a < b THEN b - a ELSE a - b

\* row a of the table of data_type is more than the tolerance away from
\* every row of the combined table
FarFromEveryRow(a, data_type, rows) ==
    \A i \in 1..Len(rows) :
        Distance(a[TsColumn(data_type)], rows[i].open_time) > Tolerance

\* C16: in the merge no auxiliary row is joined to a row whose open_time
\* differs from the auxiliary row's timestamp by more than one bucket width
\* (4 hours); an auxiliary row more than 4 hours away from every open_time
\* contributes its values to no row of the combined table, and a value
\* column is filled only where a row was joined.
C16_JoinWithinTolerance ==
    mret.outcome = "merged" =>
        /\ \A j \in mret.joins : Distance(j.open_time, j.timestamp) <= Tolerance
        /\ \A d \in Auxiliary : \A k \in 1..Len(files[d].rows) :
               (Intact(files[d], d) /\ FarFromEveryRow(files[d].rows[k], d, mret.df.rows)) =>
                   ~\E j \in mret.joins :
                       /\ j.data_type = d
                       /\ j.timestamp = files[d].rows[k].timestamp
        /\ files["ohlcv"].kind # "absent" =>
               \A i \in 1..Len(mret.df.rows) : \A d \in Auxiliary :
                   \A c \in ValueColumns(d) \cap mret.columns :
                       mret.df.rows[i][c] # <<>> =>
                           \E j \in mret.joins :
                               /\ j.data_type = d
                               /\ j.open_time = mret.df.rows[i].open_time
                               /\ \E k \in 1..Len(files[d].rows) :
                                      /\ files[d].rows[k].timestamp = j.timestamp
                                      /\ mret.df.rows[i][c] = <<files[d].rows[k][c]>>

C16_Witness ==
    /\ mret.outcome = "merged"
    /\ Intact(files["ohlcv"], "ohlcv")
    /\ Intact(files["sentiment"], "sentiment")
    /\ \E k \in 1..Len(files["sentiment"].rows) :
           FarFromEveryRow(files["sentiment"].rows[k], "sentiment", mret.df.rows)
    /\ \E j \in mret.joins :
           j.data_type = "sentiment" /\ Distance(j.open_time, j.timestamp) = Tolerance

\* C17: two consecutive calls of merge_data_for_training with no change to
\* any per-source cache file between them return identical combined tables
\* and leave the combined cache entry with identical content.
C17_MergeIdempotent ==
    [][(/\ pc = "merge"
        /\ pc' = "idle"
        /\ mret.outcome # "none"
        /\ files' = files) =>
           /\ mret'.df = mret.df
           /\ mret'.columns = mret.columns
           /\ mret'.outcome = mret.outcome
           /\ combined' = combined
      ]_vars

C17_Witness ==
    /\ merges = 2
    /\ pc = "idle"
    /\ mret.outcome = "merged"
    /\ Len(mret.df.rows) >= 2
    /\ mret.joins # {}
    /\ combined = CsvFile(mret.df.rows)

\* C18: merge_data_for_training with any subset of the auxiliary cache
\* files missing (OHLCV file present) does not raise and does not return an
\* empty table: each missing source is skipped and the columns of every
\* source whose file is present appear in the combined table.
C18_MissingSourcesSkipped ==
    (/\ mret.outcome # "none"
     /\ Intact(files["ohlcv"], "ohlcv")
     /\ PresentFilesIntact) =>
        /\ mret.outcome = "merged"
        /\ ~IsEmpty(mret.df)
        /\ \A d \in DataTypes :
               files[d].kind # "absent" => ValueColumns(d) \subseteq mret.columns

\* C19: merge_data_for_training reads every cached series of the configured
\* symbol/interval: for every data type of the Series Key enum whose cache
\* file exists, that table's value columns are joined into the combined
\* table.
C19_MergeReadsEverySeries ==
    (mret.outcome # "none" /\ PresentFilesIntact) =>
        \A d \in DataTypes :
            files[d].kind # "absent" =>
                /\ mret.outcome = "merged"
                /\ ValueColumns(d) \subseteq mret.columns

\* C20: when at least one source file exists, merge_data_for_training writes
\* the final combined table to the combined cache entry, returns that same
\* table and leaves every per-source cache file unchanged; the combined
\* entry is rebuilt in full on each call.
C20_CombinedPersistedAndReturned ==
    [][(/\ pc = "merge"
        /\ pc' = "idle"
        /\ PresentFilesIntact
        /\ \E d \in DataTypes : files[d].kind # "absent") =>
           /\ mret'.outcome = "merged"
           /\ combined' = CsvFile(mret'.df.rows)
           /\ files' = files
      ]_vars

\* C21: in every reachable state, every cache file a fetcher persisted has
\* no two rows with the same timestamp, and its timestamps do not decrease
\* in row order (together: they increase strictly from row to row).
C21_TimestampsUniqueAndSorted ==
    \A d \in DataTypes :
        LET rows == files[d].rows
            col == TsColumn(d)
        IN  \A i, j \in 1..Len(rows) :
                (i < j /\ col \in DOMAIN rows[i] /\ col \in DOMAIN rows[j]) =>
                    rows[i][col] < rows[j][col]

C21_Witness ==
    /\ Refreshed
    /\ ret.who = "ohlcv"
    /\ Len(ret.pages) = 2
    /\ files["ohlcv"] = CsvFile(ret.df.rows)
    /\ \E d \in Auxiliary :
           /\ Intact(files[d], d)
           /\ Len(files[d].rows) >= 2

\* a request of the log was answered by a response of the wrong shape: an
\* expected field missing, the symbol missing, or an empty payload
HasShapeFailure(log) ==
    \E i \in 1..Len(log) : log[i].response \in {"malformed", "unlisted", "empty"}

\* C22: for every source a data-shape failure of the upstream response (an
\* expected field missing, or an empty payload) is treated as an empty
\* result: the fetch_and_store does not raise, and (apart from the OHLCV
\* pages already received) the table it returns is empty.
C22_ShapeFailureIsEmptyResult ==
    (Ended /\ HasShapeFailure(ret.requests)) =>
        /\ ret.status = "returned"
        /\ ret.who # "ohlcv" => IsEmpty(ret.df)

\* the 4-hour bucket timestamps of the range start_date..end_date
Buckets(start_date, end_date) ==
    {t \in start_date..end_date : (t - start_date) % Interval = 0}

\* C23: a fear/greed fetch over a range of N 4-hour buckets that gets a good
\* response returns exactly N rows, the i-th at the i-th bucket timestamp
\* of the range, all holding the same index value, and has issued exactly
\* one HTTP request.
C23_FearGreedOneRowPerBucket ==
    (/\ Refreshed
     /\ ret.who = "fear_greed"
     /\ ~HasFailedRequest(ret.requests)
     /\ ~HasShapeFailure(ret.requests)) =>
        LET rows == ret.df.rows
        IN  /\ Len(ret.requests) = 1
            /\ ret.requests[1].endpoint = Endpoint("fear_greed")
            /\ Len(rows) = Cardinality(Buckets(args.start_date, args.end_date))
            /\ \A i \in 1..Len(rows) :
                   /\ rows[i].timestamp = args.start_date + (i - 1) * Interval
                   /\ rows[i].fear_greed_index = rows[1].fear_greed_index

C23_Witness ==
    /\ Refreshed
    /\ ret.who = "fear_greed"
    /\ Len(ret.requests) = 1
    /\ ret.requests[1].response = "ok"
    /\ Cardinality(Buckets(args.start_date, args.end_date)) = 3
    /\ Len(ret.df.rows) = 3

\* C24: the technical-indicator table has exactly one row per OHLCV row, in
\* the same order, with timestamp equal to that row's open_time; the
\* 50-period (200-period) moving average is missing on every row that has
\* fewer than 50 (200) closes up to and including it.
C24_TechnicalOneRowPerCandle ==
    (Refreshed /\ ret.who = "technical") =>
        LET ohlcv == args.ohlcv_data.rows
            rows == ret.df.rows
        IN  /\ Len(rows) = Len(ohlcv)
            /\ \A i \in 1..Len(rows) :
                   /\ rows[i].timestamp = ohlcv[i].open_time
                   /\ i < Sma50Period => rows[i].sma50 = "NaN"
                   /\ i < Sma200Period => rows[i].sma200 = "NaN"

C24_Witness ==
    /\ Refreshed
    /\ ret.who = "technical"
    /\ Len(args.ohlcv_data.rows) = 3
    /\ Len(ret.df.rows) = 3
    /\ \A i \in 1..3 : ret.df.rows[i].sma50 = "NaN" /\ ret.df.rows[i].sma200 = "NaN"
    /\ files["technical"] = CsvFile(ret.df.rows)

\* the page requests reqs of an OHLCV refresh and the pages received for
\* them: every request after the first starts one millisecond after the
\* close of the last row of the page before it, later than the request
\* before it and later than every candle of the pages before it
CursorsAdvance(reqs, pages) ==
    \A i \in 2..Len(reqs) :
        /\ reqs[i].hasStartTime
        /\ reqs[i].startTime = pages[i - 1][Len(pages[i - 1])].close_time + 1
        /\ reqs[i].startTime > reqs[i - 1].startTime
        /\ \A k \in 1..(i - 1) : \A j \in 1..Len(pages[k]) :
               pages[k][j].open_time < reqs[i].startTime

\* C26: within one OHLCV refresh, every page request after the first
\* carries a start cursor equal to the close time of the last row of the
\* previous page plus one millisecond; the start cursors of successive page
\* requests are strictly increasing and no candle of an earlier page is
\* requested again.
C26_CursorAfterLastClose ==
    /\ (pc = "page" /\ active = "ohlcv") => CursorsAdvance(PageRequests(reqLog), all_ohlcv)
    /\ (Ended /\ ret.who = "ohlcv") => CursorsAdvance(PageRequests(ret.requests), ret.pages)

C26_Witness ==
    /\ Ended
    /\ ret.who = "ohlcv"
    /\ Len(PageRequests(ret.requests)) = 2
    /\ Len(ret.pages[1]) = PageLimit
    /\ PageRequests(ret.requests)[2].startTime = ret.pages[1][PageLimit].close_time + 1
    /\ PageRequests(ret.requests)[2].response = "ok"

\* C29: for a non-empty OHLCV table of n rows and a stale or absent
\* order-book cache, OrderBookData.fetch_and_store, when none of its
\* requests fails, issues exactly n depth requests, one per OHLCV row in row
\* order, and returns n rows whose i-th timestamp is the i-th open_time.
C29_OneDepthRequestPerCandle ==
    (/\ Ended
     /\ ret.who = "orderbook"
     /\ ~ret.fresh
     /\ chk.who = "orderbook"
     /\ chk.status # "raised"
     /\ ~IsEmpty(args.ohlcv_data)
     /\ ~HasFailedRequest(ret.requests)
     /\ ~HasShapeFailure(ret.requests)) =>
        LET ohlcv == args.ohlcv_data.rows
            rows == ret.df.rows
        IN  /\ ret.status = "returned"
            /\ Len(ret.requests) = Len(ohlcv)
            /\ \A i \in 1..Len(ret.requests) : ret.requests[i].endpoint = "depth"
            /\ Len(rows) = Len(ohlcv)
            /\ \A i \in 1..Len(rows) : rows[i].timestamp = ohlcv[i].open_time

\* C30: in every run of DataManager.fetch_and_store_all the OHLCV
\* fetch_and_store is the first one invoked and has returned before any
\* auxiliary fetcher is invoked; each auxiliary fetcher is invoked at most
\* once, and only after the fetcher invoked before it has returned.
C30_FetchersRunInSequence ==
    [][(mgrPc = "running" /\ invoked' # invoked) =>
           LET d == invoked'[Len(invoked')]
           IN  /\ invoked' = Append(invoked, d)
               /\ Invocations(d) = 0
               /\ IF invoked = <<>>
                  THEN d = "ohlcv"
                  ELSE /\ d \in Auxiliary
                       /\ invoked[1] = "ohlcv"
                       /\ ret.who = invoked[Len(invoked)]
                       /\ ret.status = "returned"
      ]_vars

C30_Witness ==
    /\ mgrPc = "returned"
    /\ Len(invoked) = Len(ManagerOrder)
    /\ invoked[1] = "ohlcv"
    /\ ret.who = invoked[Len(invoked)]
    /\ Len(ret.before["ohlcv"].rows) >= 2

\* the auxiliary data types the merge reads whose cache file exists
MergedAuxiliary ==
    {d \in Auxiliary : (\E i \in 1..Len(MergeOrder) : MergeOrder[i] = d)
                       /\ files[d].kind # "absent"}

\* the rows of the table of data_type at most the tolerance away from t
RowsWithin(t, data_type) ==
    {k \in 1..Len(files[data_type].rows) :
        Distance(t, files[data_type].rows[k].timestamp) <= Tolerance}

\* C27: when the OHLCV cache file is present (and every present file can be
\* read), the combined table has exactly one row per OHLCV row and no other
\* row, the i-th keyed by the i-th OHLCV open_time, whichever auxiliary
\* files are present; an OHLCV row with no row of an auxiliary source
\* within tolerance is kept, with that source's columns missing.
C27_OneRowPerCandle ==
    (/\ mret.outcome # "none"
     /\ PresentFilesIntact
     /\ files["ohlcv"].kind # "absent") =>
        LET ohlcv == files["ohlcv"].rows
            rows == mret.df.rows
        IN  /\ mret.outcome = "merged"
            /\ Len(rows) = Len(ohlcv)
            /\ \A i \in 1..Len(rows) :
                   /\ rows[i].open_time = ohlcv[i].open_time
                   /\ rows[i].close_time = <<ohlcv[i].close_time>>
                   /\ \A d \in MergedAuxiliary :
                          RowsWithin(rows[i].open_time, d) = {} =>
                              \A c \in ValueColumns(d) :
                                  c \in DOMAIN rows[i] /\ rows[i][c] = <<>>

C27_Witness ==
    /\ mret.outcome = "merged"
    /\ PresentFilesIntact
    /\ Len(files["ohlcv"].rows) >= 2
    /\ Len(mret.df.rows) = Len(files["ohlcv"].rows)
    /\ \E d \in MergedAuxiliary : \E i, j \in 1..Len(mret.df.rows) :
           /\ RowsWithin(mret.df.rows[i].open_time, d) = {}
           /\ RowsWithin(mret.df.rows[j].open_time, d) # {}

\* C28: in the merge each OHLCV row receives the values of the row of each
\* auxiliary source whose timestamp is nearest to its open_time, earlier or
\* later, among the rows at distance at most 4 hours; a row exactly 4 hours
\* away is within tolerance and is joined.
C28_NearestWithinToleranceJoined ==
    (/\ mret.outcome # "none"
     /\ PresentFilesIntact
     /\ files["ohlcv"].kind # "absent") =>
        \A i \in 1..Len(mret.df.rows) : \A d \in MergedAuxiliary :
            LET t == mret.df.rows[i].open_time
                near == RowsWithin(t, d)
            IN  near # {} =>
                    \E k \in near :
                        /\ \A n \in near :
                               Distance(t, files[d].rows[k].timestamp)
                                   <= Distance(t, files[d].rows[n].timestamp)
                        /\ [data_type |-> d, open_time |-> t,
                            timestamp |-> files[d].rows[k].timestamp] \in mret.joins
                        /\ \A c \in ValueColumns(d) :
                               mret.df.rows[i][c] = <<files[d].rows[k][c]>>

C28_Witness ==
    /\ mret.outcome = "merged"
    /\ PresentFilesIntact
    /\ files["ohlcv"].kind # "absent"
    /\ \E d \in MergedAuxiliary : \E i \in 1..Len(mret.df.rows) :
           LET t == mret.df.rows[i].open_time
           IN  /\ RowsWithin(t, d) # {}
               /\ \A k \in RowsWithin(t, d) :
                      Distance(t, files[d].rows[k].timestamp) = Tolerance
               /\ \E j \in mret.joins :
                      j.data_type = d /\ j.open_time = t
                      /\ Distance(t, j.timestamp) = Tolerance

RECURSIVE Trades(_)
\* the trade_data of the well-formed messages among msgs, in their order
Trades(msgs) ==
    IF msgs = <<>> THEN <<>>
    ELSE IF WellFormed(Head(msgs)) THEN <<TradeData(Head(msgs))>> \o Trades(Tail(msgs))
    ELSE Trades(Tail(msgs))

\* what holds of the stream in every state: the caller that has started the
\* thread can return; the callback was invoked with the trade_data of the
\* well-formed messages received, once each and in their order; the
\* WebSocketApp has connected at most once
StreamDelivers ==
    /\ spc = "started" => (ws # "none" /\ ENABLED StreamReturn)
    /\ delivered = Trades(received)
    /\ connections <= 1

\* what a step does once the connection has ended: no message, no callback,
\* no connection
StaysClosed ==
    ws \in {"closed", "error"} =>
        /\ delivered' = delivered
        /\ received' = received
        /\ connections' = connections
        /\ ws' \in {"closed", "error"}

\* C25: stream_live_price starts the trade stream on a background thread and
\* can return to the caller whether or not any message has arrived; the
\* callback has been invoked exactly once for every well-formed trade
\* message received, in arrival order, and for nothing else; a connection
\* that has ended is not opened again and from then on the callback is
\* never invoked.
C25_StreamDeliversEachTradeOnce == []StreamDelivers /\ [][StaysClosed]_vars

C25_Witness ==
    /\ spc = "returned"
    /\ ws = "closed"
    /\ connections = 1
    /\ Len(received) = 3
    /\ WellFormed(received[1])
    /\ ~WellFormed(received[2])
    /\ WellFormed(received[3])
    /\ delivered = <<TradeData(received[1]), TradeData(received[3])>>

\* C31: each fetcher owns its own file: no step of the fetch_and_store of
\* the fetcher for data type X changes the cache file of another data type
\* or the combined file, and the table a call serves from cache is the
\* content of the file of X.
C31_FetcherOwnsItsFile ==
    [][(pc \notin {"idle", "merge"}) =>
           /\ \A d \in DataTypes \ {active} : files'[d] = files[d]
           /\ combined' = combined
           /\ (ret'.who = active /\ ret'.status = "returned" /\ ret'.fresh) =>
                  ret'.df.rows = files[active].rows
      ]_vars

C31_Witness ==
    /\ Refreshed
    /\ ret.who \in Auxiliary
    /\ ret.after[ret.who] # ret.before[ret.who]
    /\ ret.after[ret.who] = CsvFile(ret.df.rows)
    /\ \E d \in DataTypes \ {ret.who} :
           /\ ret.before[d].kind # "absent"
           /\ ret.after[d] = ret.before[d]

\* the requests of the log answered well that came before its first failed
\* one, when a request of the log failed
AnsweredBeforeFailure(log) ==
    {i \in 1..Len(log) :
        /\ log[i].response = "ok"
        /\ \E j \in (i + 1)..Len(log) : log[j].response = "error"
        /\ \A j \in 1..i : log[j].response # "error"}

\* the refresh described by ret failed part-way: a page request failed
\* after a page was received, or a depth request after a snapshot
FailedPartWay ==
    /\ Ended
    /\ ~ret.fresh
    /\ HasFailedRequest(ret.requests)
    /\ \/ ret.who = "ohlcv" /\ Len(ret.pages) >= 1
       \/ ret.who = "orderbook" /\ AnsweredBeforeFailure(ret.requests) # {}

\* C32: if a request fails part-way through a multi-request refresh (an
\* OHLCV page after a successful page, an order-book snapshot after a
\* successful snapshot), fetch_and_store raises and nothing is saved: the
\* cache file of that key is what it was before the call.
C32_PartialRefreshSavesNothing ==
    FailedPartWay =>
        /\ ret.status = "raised"
        /\ ret.after[ret.who] = ret.before[ret.who]
        /\ files[ret.who] = ret.before[ret.who]

C32_Witness ==
    /\ FailedPartWay
    /\ ret.who = "orderbook"
    /\ ret.status = "raised"
    /\ Len(ret.requests) = 2
    /\ ret.before["orderbook"].kind # "absent"
    /\ files["orderbook"] = ret.before["orderbook"]

\* the call described by ret found a readable but outdated cache file
StaleBefore ==
    /\ Ended
    /\ ~ret.fresh
    /\ Intact(ret.before[ret.who], ret.who)

\* C33: when a fetcher's cache is stale and its refresh yields an empty
\* result, fetch_and_store returns the empty table and not the stale one (a
\* failure an auxiliary fetch swallows yields the empty table), leaves the
\* stale file unchanged, and the file is still stale: the next call attempts
\* the fetch again.
C33_EmptyRefreshKeepsStaleFile ==
    /\ (/\ StaleBefore
        /\ ret.status = "returned"
        /\ ret.who \in Auxiliary
        /\ HasFailedRequest(ret.requests) \/ HasShapeFailure(ret.requests)) =>
           IsEmpty(ret.df)
    /\ (StaleBefore /\ ret.status = "returned" /\ IsEmpty(ret.df)) =>
           /\ ret.after[ret.who] = ret.before[ret.who]
           /\ files[ret.who] = ret.before[ret.who]
           /\ ~_check_local_data(files[ret.who], ret.who, now).fresh

C33_Witness ==
    /\ StaleBefore
    /\ ret.status = "returned"
    /\ ret.who = "fundamentals"
    /\ HasFailedRequest(ret.requests)
    /\ IsEmpty(ret.df)
    /\ files["fundamentals"] = ret.before["fundamentals"]

\* C34: refresh converges: after a fetch_and_store call that fetched and
\* saved a table (no time having passed since its cache check), a second
\* call on the same key with no time elapsed finds the cache fresh (and is
\* then served from cache with no external request), for every fetcher and
\* every table the upstream can return.
C34_RefreshConverges ==
    (/\ Refreshed
     /\ ~IsEmpty(ret.df)
     /\ ret.after[ret.who] = CsvFile(ret.df.rows)
     /\ chk.who = ret.who
     /\ chk.at = ret.at) =>
        _check_local_data(ret.after[ret.who], ret.who, ret.at).fresh

\* the first data type in the order of the merge whose file exists
Anchor ==
    MergeOrder[CHOOSE i \in 1..Len(MergeOrder) :
                   /\ files[MergeOrder[i]].kind # "absent"
                   /\ \A j \in 1..(i - 1) : files[MergeOrder[j]].kind = "absent"]

\* C35: if the OHLCV cache file is absent while at least one auxiliary file
\* the merge reads exists (and can be read), merge_data_for_training does
\* not return an empty table: the first present source in the order
\* orderbook, technical, sentiment, fear_greed, fundamentals is the anchor,
\* its rows kept with timestamp renamed to open_time, the remaining present
\* sources are joined onto it, and the result is saved as the combined
\* entry.
C35_FirstPresentSourceAnchors ==
    (/\ mret.outcome # "none"
     /\ PresentFilesIntact
     /\ files["ohlcv"].kind = "absent"
     /\ MergedAuxiliary # {}) =>
        LET anchor == files[Anchor].rows
            rows == mret.df.rows
        IN  /\ mret.outcome = "merged"
            /\ ~IsEmpty(mret.df)
            /\ Anchor \in MergedAuxiliary
            /\ Len(rows) = Len(anchor)
            /\ \A i \in 1..Len(rows) :
                   /\ rows[i].open_time = anchor[i].timestamp
                   /\ "timestamp" \notin DOMAIN rows[i]
                   /\ \A c \in ValueColumns(Anchor) : rows[i][c] = <<anchor[i][c]>>
            /\ mret.columns = UNION {ValueColumns(d) : d \in MergedAuxiliary}
            /\ \A d \in MergedAuxiliary \ {Anchor} : \A i \in 1..Len(rows) :
                   RowsWithin(rows[i].open_time, d) # {} =>
                       \E j \in mret.joins : j.data_type = d /\ j.open_time = rows[i].open_time
            /\ combined = CsvFile(rows)

C35_Witness ==
    /\ mret.outcome = "merged"
    /\ PresentFilesIntact
    /\ files["ohlcv"].kind = "absent"
    /\ files["orderbook"].kind = "absent"
    /\ Cardinality(MergedAuxiliary) >= 2
    /\ mret.joins # {}
    /\ combined = CsvFile(mret.df.rows)
    /\ Len(mret.df.rows) >= 2

====
